---- MODULE Spec2Model ----
(***************************************************************************)
(* Signed-URL option validation / V4 canonical headers (storage/bucket.rs)  *)
(* and the service-account token sources (foundation/auth).                 *)
(*                                                                           *)
(* Strings the code inspects character by character (method, md5, headers)  *)
(* are sequences of ASCII codes; instants are whole seconds since the epoch.*)
(***************************************************************************)
EXTENDS Integers, Sequences, FiniteSets, TLC

VARIABLES
    opts,    \* the SignedURLOptions of the signing request
    call,    \* the last storage operation applied to opts and its outcome
    cred,    \* the CredentialsFile record
    args,    \* the arguments the token sources were constructed with
    sa,      \* Result<ServiceAccountTokenSource, Error> of new, once called
    oa,      \* Result<OAuth2ServiceAccountTokenSource, Error> of new, once called
    clock,   \* chrono::Utc::now(), in seconds
    pc,      \* per caller: position inside token()
    local,   \* per caller: the locals of an OAuth2 token() suspended at the await,
             \* among them the request handed to the HTTP client
    ret      \* what the token() call that returned last returned

urlvars == <<opts, call>>
tokvars == <<cred, args, sa, oa, clock, pc, local, ret>>
vars == <<opts, call, cred, args, sa, oa, clock, pc, local, ret>>

(* ------------------------------ bounds --------------------------------- *)
\* largest clock reading (seconds) handed to validate_options / read by token()
MaxNow == 2
\* longest extension-header list drawn for SignedURLOptions.headers
MaxHeaders == 2
\* number of concurrent callers of token()
MaxCallers == 2

(* --------------------------- string helpers ---------------------------- *)
\* Option::None
None == "None"
\* the outcome of a Rust panic (index out of bounds)
Panic == "panic"

\* char::to_uppercase on ASCII
to_upper_char(c) == IF c \in 97..122 THEN c - 32 ELSE c
\* char::to_lowercase on ASCII
to_lower_char(c) == IF c \in 65..90 THEN c + 32 ELSE c
\* str::to_uppercase
to_uppercase(s) == [i \in 1..Len(s) |-> to_upper_char(s[i])]
\* str::to_lowercase
to_lowercase(s) == [i \in 1..Len(s) |-> to_lower_char(s[i])]

\* byte-wise lexicographic order of str (Ord for str)
RECURSIVE str_le(_, _)
str_le(a, b) ==
    IF a = <<>> THEN TRUE
    ELSE IF b = <<>> THEN FALSE
    ELSE IF Head(a) < Head(b) THEN TRUE
    ELSE IF Head(a) > Head(b) THEN FALSE
    ELSE str_le(Tail(a), Tail(b))

\* insertion of one string into a sorted list
RECURSIVE sort_insert(_, _)
sort_insert(x, l) ==
    IF l = <<>> THEN <<x>>
    ELSE IF str_le(x, Head(l)) THEN <<x>> \o l
    ELSE <<Head(l)>> \o sort_insert(x, Tail(l))

\* Vec<String>::sort
RECURSIVE sort(_)
sort(l) == IF l = <<>> THEN <<>> ELSE sort_insert(Head(l), sort(Tail(l)))

\* [String]::join(sep)
RECURSIVE join(_, _)
join(l, sep) ==
    IF l = <<>> THEN <<>>
    ELSE IF Len(l) = 1 THEN Head(l)
    ELSE Head(l) \o sep \o join(Tail(l), sep)

\* position of the first occurrence of char c in s, 0 when absent
find_char(s, c) ==
    IF \E i \in 1..Len(s) : s[i] = c
    THEN CHOOSE i \in 1..Len(s) : s[i] = c /\ \A j \in 1..(i - 1) : s[j] # c
    ELSE 0

\* str::split(c).collect_vec(): always at least one piece
RECURSIVE split(_, _)
split(s, c) ==
    LET p == find_char(s, c)
    IN IF p = 0 THEN <<s>>
       ELSE <<SubSeq(s, 1, p - 1)>> \o split(SubSeq(s, p + 1, Len(s)), c)

\* str::starts_with
starts_with(s, p) == Len(s) >= Len(p) /\ SubSeq(s, 1, Len(p)) = p
\* str::contains(substring)
contains(s, p) ==
    \E i \in 1..(Len(s) + 1) : i + Len(p) - 1 <= Len(s) /\ SubSeq(s, i, i + Len(p) - 1) = p

(* ------------------------------ base64 --------------------------------- *)
\* value of a character of the standard base64 alphabet, -1 outside it
b64_val(c) ==
    IF c \in 65..90 THEN c - 65
    ELSE IF c \in 97..122 THEN c - 71
    ELSE IF c \in 48..57 THEN c + 4
    ELSE IF c = 43 THEN 62
    ELSE IF c = 47 THEN 63
    ELSE -1

\* number of '=' characters ending s
RECURSIVE b64_pad(_)
b64_pad(s) ==
    IF s # <<>> /\ s[Len(s)] = 61 THEN 1 + b64_pad(SubSeq(s, 1, Len(s) - 1)) ELSE 0

\* the bytes encoded by a padding-free run of alphabet characters
RECURSIVE b64_bytes(_)
b64_bytes(v) ==
    IF Len(v) >= 4
    THEN << v[1] * 4 + (v[2] \div 16),
            (v[2] % 16) * 16 + (v[3] \div 4),
            (v[3] % 4) * 64 + v[4] >> \o b64_bytes(SubSeq(v, 5, Len(v)))
    ELSE IF Len(v) = 3
    THEN << v[1] * 4 + (v[2] \div 16), (v[2] % 16) * 16 + (v[3] \div 4) >>
    ELSE IF Len(v) = 2
    THEN << v[1] * 4 + (v[2] \div 16) >>
    ELSE <<>>

\* base64::decode: Err on a character outside the alphabet, an impossible
\* length, misplaced padding or non-zero trailing bits; Ok(bytes) otherwise
base64_decode(s) ==
    LET pad  == b64_pad(s)
        body == SubSeq(s, 1, Len(s) - pad)
        v    == [i \in 1..Len(body) |-> b64_val(body[i])]
        n    == Len(body)
    IN IF \E i \in 1..n : v[i] = -1 THEN [ok |-> FALSE, bytes |-> <<>>]
       ELSE IF n % 4 = 1 THEN [ok |-> FALSE, bytes |-> <<>>]
       ELSE IF pad > 0 /\ (pad > 2 \/ (n + pad) % 4 # 0) THEN [ok |-> FALSE, bytes |-> <<>>]
       ELSE IF n % 4 = 2 /\ v[n] % 16 # 0 THEN [ok |-> FALSE, bytes |-> <<>>]
       ELSE IF n % 4 = 3 /\ v[n] % 4 # 0 THEN [ok |-> FALSE, bytes |-> <<>>]
       ELSE [ok |-> TRUE, bytes |-> b64_bytes(v)]

(* --------------------------- option validation -------------------------- *)
\* const signed_url_methods: DELETE, GET, HEAD, POST, PUT
signed_url_methods ==
    { <<68, 69, 76, 69, 84, 69>>, <<71, 69, 84>>, <<72, 69, 65, 68>>,
      <<80, 79, 83, 84>>, <<80, 85, 84>> }

\* the only SigningScheme variant
SigningSchemeV4 == "SigningSchemeV4"

\* Duration::from_secs(604801) added to now to form the V4 cutoff
CutoffSecs == 604801

\* Result::Ok(())
Ok == [ok |-> TRUE, reason |-> ""]
\* Result::Err(InvalidOption(reason))
InvalidOption(reason) == [ok |-> FALSE, reason |-> reason]

\* expires.is_zero(): the unset instant
is_zero(t) == t = 0

\* validate_options, the md5 block with the length test left out: a digest
\* of the wrong length is reported as a malformed checksum
md5_check_no_length(o) ==
    IF o.md5 = <<>> THEN ""
    ELSE IF ~base64_decode(o.md5).ok \/ Len(base64_decode(o.md5).bytes) # 16
         THEN "storage: invalid MD5 checksum"
    ELSE ""

\* validate_options, the md5 block: the reason it rejects with, "" when it passes
md5_check(o) ==
    IF o.md5 = <<>> THEN ""
    ELSE IF ~base64_decode(o.md5).ok THEN "storage: invalid MD5 checksum"
    ELSE IF Len(base64_decode(o.md5).bytes) # 16 THEN "storage: invalid MD5 checksum length"
    ELSE ""

\* validate_options, the V4 block with the cutoff placed at now + 7 days
v4_expiry_check_seven_days(o, now) ==
    /\ o.scheme = SigningSchemeV4
    /\ ~(o.expires < now + (CutoffSecs - 1))

\* validate_options, the V4 block: TRUE when expires is not before the cutoff
v4_expiry_check(o, now) ==
    /\ o.scheme = SigningSchemeV4
    /\ ~(o.expires < now + CutoffSecs)

\* validate_options(opts, now)
validate_options(o, now) ==
    IF o.google_access_id = "" THEN
        InvalidOption("storage: missing required GoogleAccessID")
    ELSE IF o.private_key = <<>> /\ o.sign_bytes = None THEN
        InvalidOption("storage: exactly one of PrivateKey or SignedBytes must be set")
    ELSE IF to_uppercase(o.method) \notin signed_url_methods THEN
        InvalidOption("storage: invalid HTTP method")
    ELSE IF is_zero(o.expires) THEN
        InvalidOption("missing required expires option")
    ELSE IF md5_check(o) # "" THEN
        InvalidOption(md5_check(o))
    ELSE IF v4_expiry_check(o, now) THEN
        InvalidOption("storage: expires must be within seven days from now")
    ELSE Ok

(* ------------------------ V4 header canonicalisation -------------------- *)
\* char::is_whitespace on the ASCII range
is_whitespace(c) == c \in {9, 10, 11, 12, 13, 32}

\* str::trim_start
RECURSIVE trim_start(_)
trim_start(s) == IF s # <<>> /\ is_whitespace(Head(s)) THEN trim_start(Tail(s)) ELSE s
\* str::trim_end
RECURSIVE trim_end(_)
trim_end(s) ==
    IF s # <<>> /\ is_whitespace(s[Len(s)]) THEN trim_end(SubSeq(s, 1, Len(s) - 1)) ELSE s
\* str::trim
trim(s) == trim_end(trim_start(s))

\* Regex "c+" replace_all(s, "c"): every run of the character c becomes one c
RECURSIVE collapse_runs(_, _)
collapse_runs(s, c) ==
    IF Len(s) < 2 THEN s
    ELSE IF s[1] = c /\ s[2] = c THEN collapse_runs(Tail(s), c)
    ELSE <<s[1]>> \o collapse_runs(Tail(s), c)

\* static space_regex = " +" applied with replacement " "
space_regex(s) == collapse_runs(s, 32)
\* static tab_regex = "[\t]+" applied with replacement "\t"
tab_regex(s) == collapse_runs(s, 9)

\* the HashMap<String, Vec<String>> filled by the first loop of
\* v4_sanitize_headers, as a function from key to its values in push order
RECURSIVE sanitized_map(_, _)
sanitized_map(hdrs, acc) ==
    IF hdrs = <<>> THEN acc
    ELSE
      LET trimmed == trim(Head(hdrs))
          parts   == split(trimmed, 58)
      IN IF Len(parts) < 2 THEN sanitized_map(Tail(hdrs), acc)
         ELSE
           LET key   == to_lowercase(trim(parts[1]))
               value == tab_regex(space_regex(trim(parts[2])))
           IN IF value = <<>> THEN sanitized_map(Tail(hdrs), acc)
              ELSE IF key \in DOMAIN acc
              THEN sanitized_map(Tail(hdrs), [acc EXCEPT ![key] = Append(@, value)])
              ELSE sanitized_map(Tail(hdrs),
                     [k \in DOMAIN acc \cup {key} |-> IF k = key THEN <<value>> ELSE acc[k]])

\* the empty HashMap
empty_map == [k \in {} |-> <<>>]

\* v4_sanitize_headers(hdrs): the output Vec is created by with_capacity, so
\* its length is 0 and the first indexed store sanitized_headers[0] = ...
\* is out of bounds; only an empty map leaves the loop body unexecuted
v4_sanitize_headers(hdrs) ==
    LET sanitized == sanitized_map(hdrs, empty_map)
        vec_len   == 0
    IN IF \E key \in DOMAIN sanitized : ~(0 < vec_len)
       THEN [panicked |-> TRUE, value |-> <<>>]
       ELSE [panicked |-> FALSE, value |-> <<>>]

\* extract_header_names(kvs): the text before the first ':' of every entry
extract_header_names(kvs) == [i \in 1..Len(kvs) |-> split(kvs[i], 58)[1]]

\* "host"
S_host == <<104, 111, 115, 116>>
\* "content-type"
S_content_type == <<99, 111, 110, 116, 101, 110, 116, 45, 116, 121, 112, 101>>
\* "content-md5"
S_content_md5 == <<99, 111, 110, 116, 101, 110, 116, 45, 109, 100, 53>>

\* signed_url_v4: header_names after the pushes and the sort
header_names(o) ==
    sort(extract_header_names(o.headers)
         \o <<S_host>>
         \o (IF o.content_type # <<>> THEN <<S_content_type>> ELSE <<>>)
         \o (IF o.md5 # <<>> THEN <<S_content_md5>> ELSE <<>>))

\* signed_url_v4: signed_headers = header_names.join(";")
signed_headers(o) == join(header_names(o), <<59>>)

\* signed_url_v4: header_with_value after the pushes and the sort
header_with_value(o, host) ==
    sort(<<S_host \o <<58>> \o host>>
         \o o.headers
         \o (IF o.content_type # <<>> THEN <<S_content_type \o <<58>> \o o.content_type>> ELSE <<>>)
         \o (IF o.md5 # <<>> THEN <<S_content_md5 \o <<58>> \o o.md5>> ELSE <<>>))

\* signed_url_v4: canonical_headers = header_with_value.join(" ")
canonical_headers(o, host) == join(header_with_value(o, host), <<32>>)

\* "x-goog-content-sha256"
S_x_goog_content_sha256 ==
    <<120, 45, 103, 111, 111, 103, 45, 99, 111, 110, 116, 101, 110, 116, 45, 115, 104,
      97, 50, 53, 54>>
\* "UNSIGNED-PAYLOAD"
S_UNSIGNED_PAYLOAD == <<85, 78, 83, 73, 71, 78, 69, 68, 45, 80, 65, 89, 76, 79, 65, 68>>

\* h.splitn(2, ":")[1]: the text after the first ':'
splitn2_second(h) == SubSeq(h, find_char(h, 58) + 1, Len(h))

\* signed_url_v4: the predicate handed to find_or_first
is_sha256_header(h) ==
    /\ starts_with(to_lowercase(h), S_x_goog_content_sha256)
    /\ find_char(h, 58) # 0

\* signed_url_v4: what the find_or_first closure appends to buffer while the
\* iterator walks hs: the value of the first entry the predicate accepts
RECURSIVE sha256_appended(_)
sha256_appended(hs) ==
    IF hs = <<>> THEN <<>>
    ELSE IF is_sha256_header(Head(hs)) THEN <<splitn2_second(Head(hs))>>
    ELSE sha256_appended(Tail(hs))

\* Itertools::find_or_first(..).is_some(): the matching entry, else the first
\* entry of the iterator, so Some whenever the iterator is not empty
find_or_first_is_some(hs) == (\E i \in 1..Len(hs) : is_sha256_header(hs[i])) \/ hs # <<>>

\* signed_url_v4: the payload-hash tokens appended to buffer, in order
payload_hash_tokens(o, host) ==
    LET hs            == header_with_value(o, host)
        sha256_header == find_or_first_is_some(hs)
    IN sha256_appended(hs) \o (IF ~sha256_header THEN <<S_UNSIGNED_PAYLOAD>> ELSE <<>>)

\* signed_url_v4: the end of the canonical request in buffer, from the
\* canonical headers on
canonical_request_tail(o, host) ==
    canonical_headers(o, host) \o <<10, 10>> \o signed_headers(o) \o <<10>>
        \o join(payload_hash_tokens(o, host), <<>>)

(* ------------------------------ URL signing ----------------------------- *)
\* path_encode_v4(path): encoded_segments is created by with_capacity, so its
\* length is 0 and the store encoded_segments[0] = ... of the first segment
\* is out of bounds; split always yields at least one segment
path_encode_v4(path) ==
    LET segments == split(path, 47)
        vec_len  == 0
    IN IF \E index \in 1..Len(segments) : ~(index - 1 < vec_len)
       THEN [panicked |-> TRUE, value |-> <<>>]
       ELSE [panicked |-> FALSE, value |-> <<>>]

\* "https"
S_https == <<104, 116, 116, 112, 115>>
\* "http"
S_http == <<104, 116, 116, 112>>

\* Url::new(path)
Url_new(path) ==
    LET raw_path == path_encode_v4(path)
    IN [panicked |-> raw_path.panicked, path |-> path, raw_path |-> raw_path.value,
        schema |-> S_https, host |-> <<>>]

\* URLStyle::host for the path style: "storage.googleapis.com"
style_host(bucket) ==
    <<115, 116, 111, 114, 97, 103, 101, 46, 103, 111, 111, 103, 108, 101,
      97, 112, 105, 115, 46, 99, 111, 109>>
\* URLStyle::path for the path style: "{bucket}/{object}"
style_path(bucket, object) == bucket \o <<47>> \o object

\* signed_url_v4(bucket, name, opts, now): Url::new panics inside
\* path_encode_v4; were it to return, the function ends in Ok("TODO")
signed_url_v4(bucket, name, o, now) ==
    LET url == Url_new(style_path(bucket, name))
    IN IF url.panicked
       THEN [panicked |-> TRUE, ok |-> FALSE, reason |-> "", value |-> <<>>,
             signed_headers |-> <<>>, canonical_headers |-> <<>>, schema |-> <<>>]
       ELSE [panicked |-> FALSE, ok |-> TRUE, reason |-> "", value |-> <<84, 79, 68, 79>>,
             signed_headers |-> signed_headers(o),
             canonical_headers |-> canonical_headers(o, style_host(bucket)),
             schema |-> IF o.insecure THEN S_http ELSE url.schema]

\* signed_url(name, object, opts) with the clock reading now: the validation
\* error is propagated, otherwise the function returns Ok("")
signed_url(name, object, o, now) ==
    LET v == validate_options(o, now)
    IN IF ~v.ok THEN [ok |-> FALSE, reason |-> v.reason, value |-> <<>>]
       ELSE [ok |-> TRUE, reason |-> "", value |-> <<>>]

(* ------------------------------ credentials ----------------------------- *)
\* jwt::EncodingKey::from_rsa_pem: a key handle, or an error on malformed PEM
from_rsa_pem(pem) ==
    IF pem = "PEM_MALFORMED" THEN [ok |-> FALSE, err |-> "JwtError", key |-> ""]
    ELSE [ok |-> TRUE, err |-> "", key |-> pem]

\* try_to_private_key falling back to an empty key when the record has none
try_to_private_key_default(c) ==
    IF c.private_key # None THEN from_rsa_pem(c.private_key)
    ELSE [ok |-> TRUE, err |-> "", key |-> ""]

\* CredentialsFile::try_to_private_key
try_to_private_key(c) ==
    IF c.private_key # None THEN from_rsa_pem(c.private_key)
    ELSE [ok |-> FALSE, err |-> "NoPrivateKeyFound", key |-> ""]

\* token::TOKEN_URL, the default token endpoint
TOKEN_URL == "https://oauth2.googleapis.com/token"

\* chrono::Duration::hours(1) in seconds
OneHourSecs == 3600

(* -------------------------------- claims -------------------------------- *)
\* struct Claims
Claims(iss, sub, scope, aud, exp, iat) ==
    [iss |-> iss, sub |-> sub, scope |-> scope, aud |-> aud, exp |-> exp, iat |-> iat]

\* Claims::token(pk, pk_id): the RS256 JWT of the claim set, kid in the header
Claims_token(claims, pk, pk_id) ==
    [header |-> [alg |-> "RS256", kid |-> pk_id], claims |-> claims, key |-> pk]

(* --------------------- ServiceAccountTokenSource ------------------------ *)
\* a token source that was not constructed yet
NotBuilt ==
    [state |-> "none", err |-> "", email |-> "", delegation_email |-> None, pk |-> "",
     pk_id |-> "", audience |-> "", scopes |-> "", token_url |-> "", client |-> FALSE]

\* ServiceAccountTokenSource::new with the record's audience override ignored
ServiceAccountTokenSource_new_caller_audience(c, audience) ==
    LET pk == try_to_private_key(c)
    IN IF ~pk.ok THEN [NotBuilt EXCEPT !.state = "err", !.err = pk.err]
       ELSE [NotBuilt EXCEPT
               !.state = "ok",
               !.email = IF c.client_email = None THEN "" ELSE c.client_email,
               !.pk = pk.key,
               !.pk_id = IF c.private_key_id = None THEN "" ELSE c.private_key_id,
               !.audience = audience]

\* ServiceAccountTokenSource::new(cred, audience)
ServiceAccountTokenSource_new(c, audience) ==
    LET pk == try_to_private_key(c)
    IN IF ~pk.ok THEN [NotBuilt EXCEPT !.state = "err", !.err = pk.err]
       ELSE [NotBuilt EXCEPT
               !.state = "ok",
               !.email = IF c.client_email = None THEN "" ELSE c.client_email,
               !.pk = pk.key,
               !.pk_id = IF c.private_key_id = None THEN "" ELSE c.private_key_id,
               !.audience = IF c.audience = None THEN audience ELSE c.audience]

\* ServiceAccountTokenSource::token handing out the token of the previous
\* call when there is one instead of signing again
ServiceAccountTokenSource_token_cached(self, now) ==
    IF ret.kind = "sa" /\ ret.ok
       THEN ret.token
       ELSE LET iat == now
                exp == iat + OneHourSecs
            IN [access_token |->
                    Claims_token(Claims(self.email, self.email, None, self.audience, exp, iat),
                                 self.pk, self.pk_id),
                token_type |-> "Bearer", expiry |-> <<exp>>]

\* ServiceAccountTokenSource::token with the clock reading now
ServiceAccountTokenSource_token(self, now) ==
    LET iat   == now
        exp   == iat + OneHourSecs
        token == Claims_token(Claims(self.email, self.email, None, self.audience, exp, iat),
                              self.pk, self.pk_id)
    IN [access_token |-> token, token_type |-> "Bearer", expiry |-> <<exp>>]

(* ------------------- OAuth2ServiceAccountTokenSource -------------------- *)
\* OAuth2ServiceAccountTokenSource::new(cred, scopes, delegation_email): the
\* fields are evaluated in order, so the HTTP client is built only after the
\* private key was obtained
OAuth2ServiceAccountTokenSource_new(c, scopes, delegation_email) ==
    LET pk == try_to_private_key(c)
    IN IF ~pk.ok THEN [NotBuilt EXCEPT !.state = "err", !.err = pk.err]
       ELSE [NotBuilt EXCEPT
               !.state = "ok",
               !.email = IF c.client_email = None THEN "" ELSE c.client_email,
               !.delegation_email = delegation_email,
               !.pk = pk.key,
               !.pk_id = IF c.private_key_id = None THEN "" ELSE c.private_key_id,
               !.scopes = scopes,
               !.token_url = IF c.token_uri = None THEN TOKEN_URL ELSE c.token_uri,
               !.client = TRUE]

\* the OAuth2 request with the service account itself as the subject
OAuth2ServiceAccountTokenSource_request_self_subject(self, now) ==
    LET iat == now
        exp == iat + OneHourSecs
        request_token ==
            Claims_token(Claims(self.email, self.email, self.scopes,
                                self.token_url, exp, iat), self.pk, self.pk_id)
    IN [method |-> "POST", uri |-> self.token_url,
        content_type |-> "application/x-www-form-urlencoded",
        body |-> <<"grant_type=urn:ietf:params:oauth:grant-type:jwt-bearer&assertion=",
                   request_token>>]

\* OAuth2ServiceAccountTokenSource::token up to the await: the signed
\* assertion and the request built from it
OAuth2ServiceAccountTokenSource_request(self, now) ==
    LET iat == now
        exp == iat + OneHourSecs
        request_token ==
            Claims_token(Claims(self.email, self.delegation_email, self.scopes,
                                self.token_url, exp, iat), self.pk, self.pk_id)
    IN [method |-> "POST", uri |-> self.token_url,
        content_type |-> "application/x-www-form-urlencoded",
        body |-> <<"grant_type=urn:ietf:params:oauth:grant-type:jwt-bearer&assertion=",
                   request_token>>]

\* InternalToken::to_token(iat): expiry is iat plus expires_in when present
to_token(it, iat) ==
    [access_token |-> it.access_token, token_type |-> it.token_type,
     expiry |-> IF it.expires_in = <<>> THEN <<>> ELSE <<iat + it.expires_in[1]>>]

(* ------------------------------- inputs --------------------------------- *)
\* "GET"
S_GET == <<71, 69, 84>>
\* "get"
S_get == <<103, 101, 116>>
\* "PATCH"
S_PATCH == <<80, 65, 84, 67, 72>>
\* "not-base64!"
S_not_base64 == <<110, 111, 116, 45, 98, 97, 115, 101, 54, 52, 33>>
\* "AAECAwQFBgcICQoLDA0O", the base64 text of the 15 bytes 0..14
S_md5_15 ==
    <<65, 65, 69, 67, 65, 119, 81, 70, 66, 103, 99, 73, 67, 81, 111, 76, 68, 65, 48, 79>>
\* "1B2M2Y8AsgTpgAmY7PhCfg==", the base64 text of a 16-byte MD5 digest
S_md5_16 ==
    <<49, 66, 50, 77, 50, 89, 56, 65, 115, 103, 84, 112, 103, 65, 109, 89, 55, 80, 104,
      67, 102, 103, 61, 61>>
\* "AAECAwQFBgcICQoLDA0ODxA=", the base64 text of the 17 bytes 0..16
S_md5_17 ==
    <<65, 65, 69, 67, 65, 119, 81, 70, 66, 103, 99, 73, 67, 81, 111, 76, 68, 65, 48, 79,
      68, 120, 65, 61>>
\* "X-Foo:bar"
S_X_Foo_bar == <<88, 45, 70, 111, 111, 58, 98, 97, 114>>
\* "x-foo:bar"
S_x_foo_bar == <<120, 45, 102, 111, 111, 58, 98, 97, 114>>
\* " x-foo:  baz  qux "
S_x_foo_spaced ==
    <<32, 120, 45, 102, 111, 111, 58, 32, 32, 98, 97, 122, 32, 32, 113, 117, 120, 32>>
\* "x-goog-content-sha256:abc"
S_sha256_abc ==
    <<120, 45, 103, 111, 111, 103, 45, 99, 111, 110, 116, 101, 110, 116, 45, 115, 104,
      97, 50, 53, 54, 58, 97, 98, 99>>
\* "nocolon"
S_nocolon == <<110, 111, 99, 111, 108, 111, 110>>
\* "text/plain"
S_text_plain == <<116, 101, 120, 116, 47, 112, 108, 97, 105, 110>>
\* bucket "b" and object "o"
Bucket == <<98>>
Object == <<111>>

AccessIds == {"", "svc@example.iam"}
PrivateKeys == {<<>>, <<45, 45>>}
SignBytes == {None, "custom_signer"}
Methods == {S_GET, S_get, S_PATCH, <<>>}
Md5s == {<<>>, S_not_base64, S_md5_15, S_md5_16, S_md5_17}
Nows == 1..MaxNow
ExpiryOffsets == {-1, 0, 1, CutoffSecs - 1, CutoffSecs}
Expiries == {0} \cup {n + d : n \in Nows, d \in ExpiryOffsets}
HeaderPool == {S_X_Foo_bar, S_x_foo_bar, S_x_foo_spaced, S_sha256_abc, S_nocolon}
HeaderLists == UNION {[1..n -> HeaderPool] : n \in 0..MaxHeaders}

\* requests that exercise the validator: every option field varies
ValidationInputs ==
    [google_access_id : AccessIds, private_key : PrivateKeys, sign_bytes : SignBytes,
     method : Methods, expires : Expiries, content_type : {<<>>}, headers : {<<>>},
     md5 : Md5s, insecure : BOOLEAN, scheme : {SigningSchemeV4}]

\* requests that exercise the header handling: extension headers vary
HeaderInputs ==
    [google_access_id : {"svc@example.iam"}, private_key : {<<45, 45>>}, sign_bytes : {None},
     method : {S_GET}, expires : {MaxNow + 1}, content_type : {<<>>, S_text_plain},
     headers : HeaderLists, md5 : {<<>>, S_md5_16}, insecure : BOOLEAN,
     scheme : {SigningSchemeV4}]

Callers == 1..MaxCallers
Emails == {None, "svc@example.iam"}
KeyIds == {None, "kid-1"}
Pems == {None, "PEM_VALID", "PEM_MALFORMED"}
TokenUris == {None, "https://token.example/override"}
AudienceOverrides == {None, "https://audience.example/override"}
Audiences == {"https://storage.googleapis.com"}
Scopes == {"https://www.googleapis.com/auth/devstorage.read_only"}
Delegations == {None, "user@example.com"}
CredRecords ==
    [client_email : Emails, private_key_id : KeyIds, private_key : Pems,
     token_uri : TokenUris, audience : AudienceOverrides]
\* what the token endpoint may answer: a token with or without expires_in;
\* the access token it issues is an opaque string, kept apart from a JWT
Responses ==
    [access_token : {[opaque |-> "abc"]}, token_type : {"Bearer"}, expires_in : {<<>>, <<OneHourSecs>>}]

(* ------------------------------ state ----------------------------------- *)
NoCall == [op |-> "idle", now |-> 0, result |-> Ok]
NoArgs == [audience |-> "", scopes |-> "", delegation_email |-> None]
NoRequest == [method |-> "", uri |-> "", content_type |-> "", body |-> <<>>]
NoLocal == [iat |-> 0, request |-> NoRequest]
NoToken == [access_token |-> [opaque |-> ""], token_type |-> "", expiry |-> <<>>]
NoReturn == [kind |-> "none", ok |-> FALSE, err |-> "", at |-> 0, token |-> NoToken]

InitUrl ==
    /\ opts \in ValidationInputs \cup HeaderInputs
    /\ call = NoCall

InitTok ==
    /\ cred \in CredRecords
    /\ args = NoArgs
    /\ sa = NotBuilt
    /\ oa = NotBuilt
    /\ clock = 1
    /\ pc = [c \in Callers |-> "idle"]
    /\ local = [c \in Callers |-> NoLocal]
    /\ ret = NoReturn

\* the storage side alone: one credential record, no token source
IdleTok ==
    /\ cred = [client_email |-> "svc@example.iam", private_key_id |-> "kid-1",
               private_key |-> "PEM_VALID", token_uri |-> None, audience |-> None]
    /\ args = NoArgs
    /\ sa = NotBuilt
    /\ oa = NotBuilt
    /\ clock = 1
    /\ pc = [c \in Callers |-> "idle"]
    /\ local = [c \in Callers |-> NoLocal]
    /\ ret = NoReturn

\* the token side alone: one valid signing request, never signed
IdleUrl ==
    /\ opts = [google_access_id |-> "svc@example.iam", private_key |-> <<45, 45>>,
               sign_bytes |-> None, method |-> S_GET, expires |-> MaxNow + 1,
               content_type |-> <<>>, headers |-> <<>>, md5 |-> <<>>, insecure |-> FALSE,
               scheme |-> SigningSchemeV4]
    /\ call = NoCall

(* ---------------------------- storage actions --------------------------- *)
\* validate_options(&opts, &now)
ValidateOptions ==
    /\ \E n \in Nows :
         call' = [op |-> "validate_options", now |-> n, result |-> validate_options(opts, n)]
    /\ UNCHANGED <<opts, tokvars>>

\* signed_url(name, object, &opts), reading the clock as n
SignedUrl ==
    /\ \E n \in Nows :
         call' = [op |-> "signed_url", now |-> n, result |-> signed_url(Bucket, Object, opts, n)]
    /\ UNCHANGED <<opts, tokvars>>

\* signed_url_v4(bucket, name, &opts, now)
SignedUrlV4 ==
    /\ \E n \in Nows :
         call' = [op |-> "signed_url_v4", now |-> n,
                  result |-> signed_url_v4(Bucket, Object, opts, n)]
    /\ UNCHANGED <<opts, tokvars>>

\* v4_sanitize_headers(&opts.headers)
V4SanitizeHeaders ==
    /\ call' = [op |-> "v4_sanitize_headers", now |-> 0,
                result |-> v4_sanitize_headers(opts.headers)]
    /\ UNCHANGED <<opts, tokvars>>

(* ----------------------------- token actions ---------------------------- *)
\* ServiceAccountTokenSource::new(&cred, audience)
NewServiceAccountTokenSource ==
    /\ sa.state = "none"
    /\ \E a \in Audiences :
         /\ sa' = ServiceAccountTokenSource_new(cred, a)
         /\ args' = [args EXCEPT !.audience = a]
    /\ UNCHANGED <<urlvars, cred, oa, clock, pc, local, ret>>

\* OAuth2ServiceAccountTokenSource::new(&cred, scopes, delegation_email)
NewOAuth2ServiceAccountTokenSource ==
    /\ oa.state = "none"
    /\ \E s \in Scopes, d \in Delegations :
         /\ oa' = OAuth2ServiceAccountTokenSource_new(cred, s, d)
         /\ args' = [args EXCEPT !.scopes = s, !.delegation_email = d]
    /\ UNCHANGED <<urlvars, cred, sa, clock, pc, local, ret>>

\* ServiceAccountTokenSource::token(&self): no await point, one step
SaToken(c) ==
    /\ pc[c] = "idle"
    /\ sa.state = "ok"
    /\ LET t == ServiceAccountTokenSource_token(sa, clock)
       IN ret' = [kind |-> "sa", ok |-> TRUE, err |-> "", at |-> clock, token |-> t]
    /\ UNCHANGED <<urlvars, cred, args, sa, oa, clock, pc, local>>

\* OAuth2ServiceAccountTokenSource::token(&self) up to client.request(..).await
OaTokenSend(c) ==
    /\ pc[c] = "idle"
    /\ oa.state = "ok"
    /\ LET r == OAuth2ServiceAccountTokenSource_request(oa, clock)
       IN local' = [local EXCEPT ![c] = [iat |-> clock, request |-> r]]
    /\ pc' = [pc EXCEPT ![c] = "awaiting"]
    /\ UNCHANGED <<urlvars, cred, args, sa, oa, clock, ret>>

\* the awaited response arrives and deserializes: Ok(it.to_token(iat))
OaTokenReceive(c) ==
    /\ pc[c] = "awaiting"
    /\ \E it \in Responses :
         ret' = [kind |-> "oa", ok |-> TRUE, err |-> "", at |-> local[c].iat,
                 token |-> to_token(it, local[c].iat)]
    /\ pc' = [pc EXCEPT ![c] = "idle"]
    /\ local' = [local EXCEPT ![c] = NoLocal]
    /\ UNCHANGED <<urlvars, cred, args, sa, oa, clock>>

\* the transport fails or the response does not deserialize: the ? returns Err
OaTokenFail(c) ==
    /\ pc[c] = "awaiting"
    /\ ret' = [kind |-> "oa", ok |-> FALSE, err |-> "HttpError", at |-> local[c].iat,
               token |-> NoToken]
    /\ pc' = [pc EXCEPT ![c] = "idle"]
    /\ local' = [local EXCEPT ![c] = NoLocal]
    /\ UNCHANGED <<urlvars, cred, args, sa, oa, clock>>

\* time passes
Tick ==
    /\ clock < MaxNow
    /\ clock' = clock + 1
    /\ UNCHANGED <<urlvars, cred, args, sa, oa, pc, local, ret>>

(* ---------------------------- specifications ---------------------------- *)
Init == InitUrl /\ IdleTok

Next ==
    \/ ValidateOptions
    \/ SignedUrl
    \/ SignedUrlV4
    \/ V4SanitizeHeaders

Spec == Init /\ [][Next]_vars

InitToken == IdleUrl /\ InitTok

NextToken ==
    \/ NewServiceAccountTokenSource
    \/ NewOAuth2ServiceAccountTokenSource
    \/ \E c \in Callers : SaToken(c)
    \/ \E c \in Callers : OaTokenSend(c)
    \/ \E c \in Callers : OaTokenReceive(c)
    \/ \E c \in Callers : OaTokenFail(c)
    \/ Tick

SpecToken == InitToken /\ [][NextToken]_vars

(* ================================ claims ================================ *)
\* exactly one of private_key / sign_bytes is supplied
ExactlyOneSigningMeans(o) == (o.private_key # <<>>) # (o.sign_bytes # None)
\* the method is on the allow-list, compared case-insensitively
MethodAllowed(o) == to_uppercase(o.method) \in signed_url_methods
\* md5 is empty or decodes to exactly 16 bytes
Md5Valid(o) ==
    o.md5 = <<>> \/ (base64_decode(o.md5).ok /\ Len(base64_decode(o.md5).bytes) = 16)
\* seven days in seconds
SevenDaysSecs == 7 * 24 * 60 * 60

\* C1: validate_options(opts, now) returns Ok if and only if the access id is
\* non-empty, exactly one signing means is supplied, the method is on the
\* allow-list, expires is strictly later than now, for V4 expires is at most
\* now + 7 days, and md5 is empty or decodes to 16 bytes.
C1_ValidateAcceptsIff ==
    call.op = "validate_options" =>
        (call.result.ok <=>
            /\ opts.google_access_id # ""
            /\ ExactlyOneSigningMeans(opts)
            /\ MethodAllowed(opts)
            /\ opts.expires > call.now
            /\ (opts.scheme = SigningSchemeV4 => opts.expires <= call.now + SevenDaysSecs)
            /\ Md5Valid(opts))

\* every option other than expires is valid
OtherOptionsValid(o) ==
    /\ o.google_access_id # ""
    /\ ExactlyOneSigningMeans(o)
    /\ MethodAllowed(o)
    /\ Md5Valid(o)

\* C2: for V4, with every other option valid, expires = now + 604801 s is
\* rejected with the seven-days reason and expires = now + 604800 s is accepted.
C2_SevenDayBoundary ==
    (call.op = "validate_options" /\ OtherOptionsValid(opts)
        /\ opts.scheme = SigningSchemeV4) =>
        /\ (opts.expires = call.now + SevenDaysSecs + 1 =>
                call.result = InvalidOption("storage: expires must be within seven days from now"))
        /\ (opts.expires = call.now + SevenDaysSecs => call.result = Ok)

\* a V4 request, valid but for expiring 7 days + 1 second from now, was rejected
C2_Witness ==
    /\ call.op = "validate_options"
    /\ OtherOptionsValid(opts)
    /\ opts.expires = call.now + SevenDaysSecs + 1
    /\ ~call.result.ok

\* access id, signing means, method and expiry are valid
OptionsValidButMd5(o, now) ==
    /\ o.google_access_id # ""
    /\ ExactlyOneSigningMeans(o)
    /\ MethodAllowed(o)
    /\ o.expires > now
    /\ o.expires <= now + SevenDaysSecs

\* C3: with the other options valid, a non-empty md5 that is not base64 is
\* rejected with the checksum-format reason, and one that decodes to a length
\* other than 16 with the checksum-length reason.
C3_Md5Reasons ==
    (call.op = "validate_options" /\ OptionsValidButMd5(opts, call.now)
        /\ opts.md5 # <<>>) =>
        /\ (~base64_decode(opts.md5).ok =>
                call.result = InvalidOption("storage: invalid MD5 checksum"))
        /\ ((base64_decode(opts.md5).ok /\ Len(base64_decode(opts.md5).bytes) # 16) =>
                call.result = InvalidOption("storage: invalid MD5 checksum length"))

\* a 15-byte digest was rejected for its length
C3_Witness ==
    /\ call.op = "validate_options"
    /\ OptionsValidButMd5(opts, call.now)
    /\ base64_decode(opts.md5).ok
    /\ Len(base64_decode(opts.md5).bytes) = 15
    /\ call.result.reason = "storage: invalid MD5 checksum length"

\* "://"
S_scheme_sep == <<58, 47, 47>>
\* the query parameter names of a V4 signed URL, each followed by '='
SignedUrlParams ==
    { <<88, 45, 71, 111, 111, 103, 45, 65, 108, 103, 111, 114, 105, 116, 104, 109, 61>>,
      <<88, 45, 71, 111, 111, 103, 45, 67, 114, 101, 100, 101, 110, 116, 105, 97, 108, 61>>,
      <<88, 45, 71, 111, 111, 103, 45, 68, 97, 116, 101, 61>>,
      <<88, 45, 71, 111, 111, 103, 45, 69, 120, 112, 105, 114, 101, 115, 61>>,
      <<88, 45, 71, 111, 111, 103, 45, 83, 105, 103, 110, 101, 100, 72, 101, 97, 100, 101,
        114, 115, 61>>,
      <<88, 45, 71, 111, 111, 103, 45, 83, 105, 103, 110, 97, 116, 117, 114, 101, 61>> }

\* C4: for options that pass validation signed_url returns an absolute URL
\* {scheme}://{host}{path}?{query}&X-Goog-Signature={sig} that carries the six
\* X-Goog-* parameters, with scheme http iff the insecure flag is set.
C4_SignedUrlForm ==
    (call.op = "signed_url" /\ validate_options(opts, call.now).ok) =>
        /\ call.result.ok
        /\ starts_with(call.result.value,
                       (IF opts.insecure THEN S_http ELSE S_https) \o S_scheme_sep
                           \o style_host(Bucket))
        /\ \A p \in SignedUrlParams : contains(call.result.value, p)

\* C5: a successful ServiceAccountTokenSource token() call at instant T
\* returns a Bearer token expiring at T + 1 hour whose JWT has iss = sub =
\* client email, no scope, iat = T, exp = T + 3600 and aud = the record's
\* audience override when present, the caller's audience otherwise.
C5_SelfSignedClaims ==
    (ret.kind = "sa" /\ ret.ok /\ cred.client_email # None) =>
        LET tok == ret.token
            cl  == tok.access_token.claims
            T   == ret.at
        IN /\ cl.iss = cred.client_email
           /\ cl.sub = cred.client_email
           /\ cl.scope = None
           /\ cl.iat = T
           /\ cl.exp = T + 3600
           /\ cl.aud = (IF cred.audience # None THEN cred.audience ELSE args.audience)
           /\ tok.token_type = "Bearer"
           /\ tok.expiry = <<T + 3600>>

\* a self-signed token was returned from a record carrying an audience override
C5_Witness ==
    /\ ret.kind = "sa"
    /\ ret.ok
    /\ cred.client_email # None
    /\ cred.audience # None
    /\ ret.at > 1

\* C6: every OAuth2 token() call at instant T signs an assertion with iss =
\* email, scope = the caller's scopes, aud = the token endpoint (the record's
\* token_uri, else the default), iat = T, exp = T + 3600, sub = the delegation
\* principal or none, and POSTs it form-encoded to that same endpoint.
C6_OAuth2Assertion ==
    \A c \in Callers :
        pc[c] = "awaiting" =>
            LET r  == local[c].request
                cl == r.body[2].claims
                T  == local[c].iat
                endpoint == IF cred.token_uri # None THEN cred.token_uri ELSE TOKEN_URL
            IN /\ (cred.client_email # None => cl.iss = cred.client_email)
               /\ cl.scope = args.scopes
               /\ cl.aud = endpoint
               /\ cl.iat = T
               /\ cl.exp = T + 3600
               /\ cl.sub = args.delegation_email
               /\ r.method = "POST"
               /\ r.uri = endpoint
               /\ r.content_type = "application/x-www-form-urlencoded"
               /\ r.body[1] = "grant_type=urn:ietf:params:oauth:grant-type:jwt-bearer&assertion="
               /\ Len(r.body) = 2

\* an assertion without a subject was sent to an overriding token endpoint
C6_Witness ==
    \E c \in Callers :
        /\ pc[c] = "awaiting"
        /\ args.delegation_email = None
        /\ cred.token_uri # None
        /\ local[c].request.body[2].claims.sub = None
        /\ local[c].iat > 1

\* C7: from a credential record without a private key both constructors fail
\* with NoPrivateKeyFound, and no token() call, JWT or HTTP request follows.
C7_NoKeyNoToken ==
    cred.private_key = None =>
        /\ sa.state # "ok"
        /\ (sa.state = "err" => sa.err = "NoPrivateKeyFound")
        /\ oa.state # "ok"
        /\ (oa.state = "err" => oa.err = "NoPrivateKeyFound" /\ ~oa.client)
        /\ ret = NoReturn
        /\ \A c \in Callers : pc[c] = "idle" /\ local[c] = NoLocal

\* both constructors were called on a record without a private key
C7_Witness ==
    /\ cred.private_key = None
    /\ sa.state = "err"
    /\ oa.state = "err"
    /\ clock > 1

\* C8: every token() call signs afresh from its own clock reading (iat = that
\* instant, exp = that instant + 1 hour), also when calls interleave, and
\* leaves the source's fields and the credential record unchanged.
C8_FreshStatelessCalls ==
    [][\A c \in Callers :
         /\ SaToken(c) =>
              /\ ret'.token.access_token.claims.iat = clock
              /\ ret'.token.access_token.claims.exp = clock + 3600
              /\ ret'.token.expiry = <<clock + 3600>>
         /\ OaTokenSend(c) =>
              /\ local'[c].request.body[2].claims.iat = clock
              /\ local'[c].request.body[2].claims.exp = clock + 3600
              /\ \A d \in Callers \ {c} : local'[d] = local[d]
         /\ OaTokenReceive(c) => ret'.at = local[c].iat
         /\ (SaToken(c) \/ OaTokenSend(c) \/ OaTokenReceive(c) \/ OaTokenFail(c)) =>
              (sa' = sa /\ oa' = oa /\ cred' = cred)]_vars

\* two OAuth2 calls started at different instants are in flight together,
\* after a self-signed token had been returned at the later instant
C8_Witness ==
    \E c, d \in Callers :
        /\ pc[c] = "awaiting"
        /\ pc[d] = "awaiting"
        /\ local[c].iat < local[d].iat
        /\ ret.kind = "sa"
        /\ ret.at > 1

\* the header entry with the letters of its name (the text before the first
\* ':') lower-cased
lower_name(h) ==
    LET p == find_char(h, 58)
    IN IF p = 0 THEN to_lowercase(h)
       ELSE to_lowercase(SubSeq(h, 1, p - 1)) \o SubSeq(h, p, Len(h))

\* two header lists identical except for the letter case of header names
SameUpToNameCase(h1, h2) ==
    /\ Len(h1) = Len(h2)
    /\ \A i \in 1..Len(h1) : lower_name(h1[i]) = lower_name(h2[i])

\* C9: in V4 signing two option sets identical except for the letter case of
\* an extension header's name yield the same canonical headers block and the
\* same signed-header list.
C9_HeaderNameCaseIrrelevant ==
    call.op = "signed_url_v4" =>
        \A h2 \in HeaderLists :
            SameUpToNameCase(opts.headers, h2) =>
                LET o2 == [opts EXCEPT !.headers = h2]
                IN /\ signed_headers(o2) = signed_headers(opts)
                   /\ canonical_headers(o2, style_host(Bucket))
                        = canonical_headers(opts, style_host(Bucket))

\* C10: v4_sanitize_headers(h) completes, and sanitizing its result again
\* yields the same list.
C10_SanitizeIdempotent ==
    call.op = "v4_sanitize_headers" =>
        /\ ~call.result.panicked
        /\ ~v4_sanitize_headers(call.result.value).panicked
        /\ v4_sanitize_headers(call.result.value).value = call.result.value

\* the caller's extension headers literally named x-goog-content-sha256
CallerSha256Headers(o) ==
    {i \in 1..Len(o.headers) : split(o.headers[i], 58)[1] = S_x_goog_content_sha256
                                  /\ find_char(o.headers[i], 58) # 0}

\* the payload-hash token the request calls for: the caller's value when an
\* x-goog-content-sha256 header was supplied, UNSIGNED-PAYLOAD otherwise
ExpectedPayloadHash(o) ==
    IF CallerSha256Headers(o) # {}
    THEN LET i == CHOOSE k \in CallerSha256Headers(o) :
                      \A m \in CallerSha256Headers(o) : k <= m
         IN splitn2_second(o.headers[i])
    ELSE S_UNSIGNED_PAYLOAD

\* s ends with t
ends_with(s, t) == Len(s) >= Len(t) /\ SubSeq(s, Len(s) - Len(t) + 1, Len(s)) = t

\* C11: in signed_url_v4 exactly one payload-hash token ends the canonical
\* request: the value of the caller's x-goog-content-sha256 header when one
\* was supplied, the literal UNSIGNED-PAYLOAD in every other case.
C11_PayloadHashToken ==
    (call.op = "signed_url_v4" /\ validate_options(opts, call.now).ok) =>
        /\ payload_hash_tokens(opts, style_host(Bucket)) = <<ExpectedPayloadHash(opts)>>
        /\ ends_with(canonical_request_tail(opts, style_host(Bucket)),
                     <<10>> \o ExpectedPayloadHash(opts))

====
